---- MODULE Spec2Model ----
(***************************************************************************)
(* A model of src/app.py, the Streamlit script that renames uploaded PDFs  *)
(* from fields found in their text.  One execution of the script runs the  *)
(* "Referensi" tab (lines 16-114) and then the "Unifikasi" tab (lines      *)
(* 120-215).  Strings are sequences of one-character strings, so that the  *)
(* sanitizer, str.strip, str.rsplit and the f-string formatting of the     *)
(* collision suffix are computed character by character.                   *)
(*                                                                         *)
(* The two collaborators the script calls but does not define are          *)
(* modelled by their outcome on a document: pdfplumber (does the file      *)
(* open, does a page raise) and re.search (is there a match, and what is   *)
(* the text of capture group 1).  Everything the script itself does with   *)
(* those outcomes is modelled as the code does it.                         *)
(***************************************************************************)
EXTENDS Integers, Sequences, FiniteSets, TLC

\* ------------------------------------------------------------------------
\* Bounds of the model
\* ------------------------------------------------------------------------

\* Most files a session uploads, over the two uploaders together.
MaxFiles == 3

\* Longest string given to the sanitizers on their own (SpecSan).
MaxLen == 3

\* ------------------------------------------------------------------------
\* Characters and strings
\* ------------------------------------------------------------------------

Upper ==
    {"A", "B", "C", "D", "E", "F", "G", "H", "I", "J", "K", "L", "M",
     "N", "O", "P", "Q", "R", "S", "T", "U", "V", "W", "X", "Y", "Z"}

Lower ==
    {"a", "b", "c", "d", "e", "f", "g", "h", "i", "j", "k", "l", "m",
     "n", "o", "p", "q", "r", "s", "t", "u", "v", "w", "x", "y", "z"}

Digit == {"0", "1", "2", "3", "4", "5", "6", "7", "8", "9"}

\* What \s matches and what str.strip() removes.
Whitespace == {" ", "\t", "\n", "\r", "\f"}

\* The complement of the character class on line 63.
AllowedReferensi ==
    Upper \cup Lower \cup Digit \cup {"-", "_", "."} \cup Whitespace \cup {"(", ")"}

\* The complement of the character class on line 165: line 63's plus "/".
AllowedUnifikasi == AllowedReferensi \cup {"/"}

\* re.sub(r"[^...]", "_", s): every character outside the class becomes "_".
re_sub(allowed, s) ==
    [k \in 1..Len(s) |-> IF s[k] \in allowed THEN s[k] ELSE "_"]

RECURSIVE lstrip(_)
lstrip(s) ==
    IF s # <<>> /\ Head(s) \in Whitespace THEN lstrip(Tail(s)) ELSE s

RECURSIVE rstrip(_)
rstrip(s) ==
    IF s # <<>> /\ s[Len(s)] \in Whitespace
    THEN rstrip(SubSeq(s, 1, Len(s) - 1))
    ELSE s

\* str.strip()
strip(s) == rstrip(lstrip(s))

\* A sanitizer that trims first and then writes a blank for a bad character.
sanitize_trim_first(allowed, s) ==
    LET t == strip(s)
    IN  [k \in 1..Len(t) |-> IF t[k] \in allowed THEN t[k] ELSE " "]

\* Line 63: safe_base = re.sub(r"[^A-Za-z0-9\-\_\.\s\(\)]", "_", base_name).strip()
\* Line 165: the same with "/" added to the class.
sanitize(allowed, s) == strip(re_sub(allowed, s))

\* str(n) for n >= 0, as the f-strings of lines 69 and 171 format the count.
DigitOf(d) ==
    CASE d = 0 -> "0" [] d = 1 -> "1" [] d = 2 -> "2" [] d = 3 -> "3"
      [] d = 4 -> "4" [] d = 5 -> "5" [] d = 6 -> "6" [] d = 7 -> "7"
      [] d = 8 -> "8" [] d = 9 -> "9"

RECURSIVE str(_)
str(n) == IF n < 10 THEN <<DigitOf(n)>> ELSE str(n \div 10) \o <<DigitOf(n % 10)>>

\* The index of the last "." of a name, 0 when there is none.
LastDot(name) ==
    IF \E k \in 1..Len(name) : name[k] = "."
    THEN CHOOSE k \in 1..Len(name) :
            /\ name[k] = "."
            /\ \A m \in (k + 1)..Len(name) : name[m] # "."
    ELSE 0

\* The index of the first "." of a name, 0 when there is none.
FirstDot(name) ==
    IF \E k \in 1..Len(name) : name[k] = "."
    THEN CHOOSE k \in 1..Len(name) :
            /\ name[k] = "."
            /\ \A m \in 1..(k - 1) : name[m] # "."
    ELSE 0

\* name.split('.', 1)[0]: cut at the first "." instead of the last.
split_stem(name) ==
    IF FirstDot(name) = 0 THEN name ELSE SubSeq(name, 1, FirstDot(name) - 1)

\* uploaded.name.rsplit('.', 1)[0] (lines 60 and 162).
rsplit_stem(name) ==
    IF LastDot(name) = 0 THEN name ELSE SubSeq(name, 1, LastDot(name) - 1)

PDF_EXT == <<".", "p", "d", "f">>

NO_REFERENSI == <<"N", "O", "-", "R", "E", "F", "E", "R", "E", "N", "S", "I", "-">>

NO_DATA == <<"N", "O", "-", "D", "A", "T", "A", "-">>

SLASH_SEP == <<" ", "/", " ">>

\* Optional values: Python's None, and a value that is present.
None == [some |-> FALSE, val |-> <<>>]

Some(s) == [some |-> TRUE, val |-> s]

\* Python truthiness of "str | None": None and "" are both false.
Truthy(o) == o.some /\ o.val # <<>>

\* ------------------------------------------------------------------------
\* Documents: what pdfplumber and re.search yield for the bytes of a file
\* ------------------------------------------------------------------------

\* One page of a document: whether page.extract_text() raises, and the raw
\* text of group 1 of REFERENSI_RE.search on the page's text (None: no match).
\* Group 1 is [A-Za-z0-9\-\s\(\)]+? : one or more characters, none of them
\* "_", and it may consist of whitespace only ("Referensi: \n" matches with
\* group 1 = "\n").
Page(raises, group) == [raises |-> raises, referensi |-> group]

\* The bytes of the documents of the model, as small numbers.
\*  1  opens; page 1 has no match, page 2 raises, page 3 matches "B"
\*  2  corrupt: pdfplumber.open raises
\*  3  opens; page 1 has no match, page 2 matches "A " (as in "Referensi: A )"), page 3 matches "B";
\*     Masa Pajak 1-2025, A.2 Nama "AC ", nomor AB12CD34
\*  4  opens; page 1 matches "A"; Masa Pajak 1-2025, A.2 Nama matches with
\*     group 1 = "\n" (whitespace only), nomor AB12CD34
\*  5  opens; page 1 matches with group 1 = "\n", page 2 matches "B";
\*     A.2 Nama "AC" and nomor AB12CD34 but no Masa Pajak
\*  6  opens; one page, nothing matches
PdfBytes == 1..6

MASA_RAW == <<"1", "-", "2", "0", "2", "5">>

NOMOR_RAW == <<"A", "B", "1", "2", "C", "D", "3", "4">>

\* pdfplumber.open(io.BytesIO(pdf_bytes)) and, per page, extract_text()
\* followed by the searches of lines 46 and 144-146.
PDF(b) ==
    CASE b = 1 ->
           [opens |-> TRUE,
            pages |-> <<Page(FALSE, None), Page(TRUE, None), Page(FALSE, Some(<<"B">>))>>,
            masa |-> None, nama |-> None, nomor |-> None]
      [] b = 2 ->
           [opens |-> FALSE, pages |-> <<>>,
            masa |-> None, nama |-> None, nomor |-> None]
      [] b = 3 ->
           [opens |-> TRUE,
            pages |-> <<Page(FALSE, None), Page(FALSE, Some(<<"A", " ">>)),
                        Page(FALSE, Some(<<"B">>))>>,
            masa |-> Some(MASA_RAW), nama |-> Some(<<"A", "C", " ">>),
            nomor |-> Some(NOMOR_RAW)]
      [] b = 4 ->
           [opens |-> TRUE,
            pages |-> <<Page(FALSE, Some(<<"A">>))>>,
            masa |-> Some(MASA_RAW), nama |-> Some(<<"\n">>),
            nomor |-> Some(NOMOR_RAW)]
      [] b = 5 ->
           [opens |-> TRUE,
            pages |-> <<Page(FALSE, Some(<<"\n">>)), Page(FALSE, Some(<<"B">>))>>,
            masa |-> None, nama |-> Some(<<"A", "C">>), nomor |-> Some(NOMOR_RAW)]
      [] OTHER ->
           [opens |-> TRUE,
            pages |-> <<Page(FALSE, None)>>,
            masa |-> None, nama |-> None, nomor |-> None]

\* An uploaded file: uploaded.name and uploaded.read().
Upload(name, bytes) == [name |-> name, bytes |-> bytes]

\* The files a user may upload to the Referensi tab (type=["pdf"]).
FilesReferensi ==
    { Upload(<<"x", ".", "p", "d", "f">>, 6),
      Upload(<<"x", "#", "1", ".", "p", "d", "f">>, 2),
      Upload(<<"y", ".", "p", "d", "f">>, 3),
      Upload(<<"z", ".", "p", "d", "f">>, 4),
      Upload(<<"w", ".", "p", "d", "f">>, 5),
      Upload(<<"v", ".", "2", " ", ".", "p", "d", "f">>, 1) }

\* The files a user may upload to the Unifikasi tab.
FilesUnifikasi ==
    { Upload(<<"y", ".", "p", "d", "f">>, 3),
      Upload(<<"z", ".", "p", "d", "f">>, 4),
      Upload(<<"w", ".", "2", ".", "p", "d", "f">>, 5),
      Upload(<<"x", "#", "1", ".", "p", "d", "f">>, 2) }

\* What st.file_uploader(..., accept_multiple_files=True) may return.
Batches(files, n) == UNION { [1..k -> files] : k \in 0..n }

\* ------------------------------------------------------------------------
\* Field extraction
\* ------------------------------------------------------------------------

\* A scan that keeps going and returns the last page's match.
RECURSIVE scan_pages_last(_)
scan_pages_last(pages) ==
    IF pages = <<>> THEN None
    ELSE IF Head(pages).raises THEN None
    ELSE LET rest == scan_pages_last(Tail(pages))
         IN  IF rest.some THEN rest
             ELSE IF Head(pages).referensi.some
                  THEN Some(strip(Head(pages).referensi.val))
                  ELSE None

\* Lines 44-51: the loop over pdf.pages.  The first page that matches ends
\* the scan; a page that raises ends it with None (line 49).
RECURSIVE scan_pages(_)
scan_pages(pages) ==
    IF pages = <<>> THEN None
    ELSE IF Head(pages).raises THEN None
    ELSE IF Head(pages).referensi.some
         THEN Some(strip(Head(pages).referensi.val))
         ELSE scan_pages(Tail(pages))

\* Lines 40-51.
extract_referensi_from_bytes(pdf_bytes) ==
    IF ~PDF(pdf_bytes).opens THEN None ELSE scan_pages(PDF(pdf_bytes).pages)

\* str.replace("-", "")
remove_hyphen(s) == SelectSeq(s, LAMBDA c : c # "-")

\* Lines 138-152.  There is no try/except: an exception of pdfplumber leaves
\* the function (raised), otherwise the three fields are returned.
extract_unifikasi_fields(pdf_bytes) ==
    LET pdf == PDF(pdf_bytes)
    IN  [raised |-> ~pdf.opens \/ \E k \in 1..Len(pdf.pages) : pdf.pages[k].raises,
         masa   |-> IF pdf.masa.some THEN Some(remove_hyphen(pdf.masa.val)) ELSE None,
         nama   |-> IF pdf.nama.some THEN Some(strip(pdf.nama.val)) ELSE None,
         nomor  |-> pdf.nomor]

\* ------------------------------------------------------------------------
\* The state of one script run
\* ------------------------------------------------------------------------

VARIABLES
    uploaded_files,       \* line 24: the files of the Referensi uploader
    uploaded_unifikasi,   \* line 127: the files of the Unifikasi uploader
    pc,                   \* where the script run is
    exc,                  \* the exception that ended the run, "none" if none
    i,                    \* position of the loop the run is in (1-based)
    referensi,            \* line 55: what extract_referensi_from_bytes returned
    results,              \* line 37
    name_counts,          \* line 38: defaultdict(int), as a finite function
    results_uni,          \* line 135
    name_counts_uni,      \* line 136
    base_name,            \* lines 57/60 and 159/162 (the same global name)
    status,               \* lines 58/61 and 160/163
    keys,                 \* the widget keys Streamlit has registered this run
    zip_buffer,           \* lines 98-101: the entries written so far
    zip_buffer_uni,       \* lines 200-203
    prev,                 \* history: the new_names of the previous run
    san                   \* the sanitizer applied on its own (SpecSan)

vars ==
    <<uploaded_files, uploaded_unifikasi, pc, exc, i, referensi, results,
      name_counts, results_uni, name_counts_uni, base_name, status, keys, zip_buffer,
      zip_buffer_uni, prev, san>>

\* defaultdict(int): a key that is absent reads as 0.
EmptyCounts == <<>>

Count(counts, k) == IF k \in DOMAIN counts THEN counts[k] ELSE 0

\* counts[k] += 1
Increment(counts, k) ==
    [x \in DOMAIN counts \cup {k} |-> IF x = k THEN Count(counts, k) + 1 ELSE counts[x]]

\* A resolver that numbers the N-th occurrence N instead of N - 1.
new_filename_off_by_one(safe_base, count) ==
    IF count = 1
    THEN safe_base \o PDF_EXT
    ELSE safe_base \o <<"_">> \o str(count) \o PDF_EXT

\* Lines 66-69 and 168-171.
new_filename(safe_base, count) ==
    IF count = 1
    THEN safe_base \o PDF_EXT
    ELSE safe_base \o <<"_">> \o str(count - 1) \o PDF_EXT

\* Lines 71-76 and 173-178.
Record(uploaded, new_name, st) ==
    [original_name |-> uploaded.name, new_name |-> new_name,
     status |-> st, bytes |-> uploaded.bytes]

\* The key of a download button: f"dl_{...}" (line 95), f"uni_dl_{...}" (197).
DlKey(new_name) == <<"d", "l", "_">> \o new_name

UniDlKey(new_name) == <<"u", "n", "i", "_", "d", "l", "_">> \o new_name

\* zf.writestr(name, data): zipfile appends an entry; it does not refuse or
\* replace an entry of the same name.
writestr(zf, name, data) == Append(zf, [name |-> name, data |-> data])

Names(rs) == [k \in 1..Len(rs) |-> rs[k].new_name]

NoSan == [step |-> "off", profile |-> "none", input |-> <<>>, once |-> <<>>, twice |-> <<>>]

\* A session starts with the files the user put into the two uploaders; no
\* name of the script is bound yet.
Init ==
    /\ uploaded_files \in Batches(FilesReferensi, MaxFiles)
    /\ uploaded_unifikasi \in Batches(FilesUnifikasi, MaxFiles - Len(uploaded_files))
    /\ pc = "t1_upload"
    /\ exc = "none"
    /\ i = 1
    /\ referensi = None
    /\ results = <<>>
    /\ name_counts = EmptyCounts
    /\ results_uni = <<>>
    /\ name_counts_uni = EmptyCounts
    /\ base_name = <<>>
    /\ status = ""
    /\ keys = {}
    /\ zip_buffer = <<>>
    /\ zip_buffer_uni = <<>>
    /\ prev = [valid |-> FALSE, names |-> <<>>, names_uni |-> <<>>]
    /\ san = NoSan

\* ------------------------------------------------------------------------
\* The script run, step by step
\* ------------------------------------------------------------------------

\* Line 63.
safe_base_referensi(name) == sanitize(AllowedReferensi, name)

\* Line 165.
safe_base_unifikasi(name) == sanitize(AllowedUnifikasi, name)

\* Lines 55-61: the name and status of a file of the Referensi tab.
synth_referensi(uploaded) ==
    LET ref == extract_referensi_from_bytes(uploaded.bytes)
    IN  IF Truthy(ref)
        THEN [base_name |-> ref.val, status |-> "OK"]
        ELSE [base_name |-> NO_REFERENSI \o rsplit_stem(uploaded.name),
              status |-> "No referensi found"]

\* A synthesis that is content with any one of the three fields.
synth_unifikasi_any(uploaded, fields) ==
    IF Truthy(fields.masa) \/ Truthy(fields.nama) \/ Truthy(fields.nomor)
    THEN [base_name |-> fields.masa.val \o SLASH_SEP \o fields.nama.val
                        \o SLASH_SEP \o fields.nomor.val,
          status |-> "OK"]
    ELSE [base_name |-> NO_DATA \o rsplit_stem(uploaded.name),
          status |-> "Incomplete fields"]

\* Lines 158-163: the name and status of a file of the Unifikasi tab, from
\* the fields extract_unifikasi_fields returned.
synth_unifikasi(uploaded, fields) ==
    IF Truthy(fields.masa) /\ Truthy(fields.nama) /\ Truthy(fields.nomor)
    THEN [base_name |-> fields.masa.val \o SLASH_SEP \o fields.nama.val
                        \o SLASH_SEP \o fields.nomor.val,
          status |-> "OK"]
    ELSE [base_name |-> NO_DATA \o rsplit_stem(uploaded.name),
          status |-> "Incomplete fields"]

\* A list that grows at the front.
prepend_record(rs, r) == <<r>> \o rs

\* results.append({...}) (lines 71 and 173).
append_record(rs, r) == Append(rs, r)

\* A key check that never finds a key in use (keys that do not depend on
\* the new name).
key_never_duplicate(ks, key) == FALSE

\* Streamlit refuses a second widget with a key already used in the run
\* (download_button(..., key=...), lines 90-96 and 192-198).
DuplicateKey(ks, key) == key \in ks

\* The exception leaves the script: nothing after it runs.
Raise(kind) ==
    /\ pc' = "exception"
    /\ exc' = kind

\* Lines 31-38 without line 38: the counter of an earlier run is kept.
Tab1BeginKeepCounts ==
    /\ pc = "t1_upload"
    /\ IF uploaded_files # <<>>
       THEN /\ results' = <<>>
            /\ name_counts' = name_counts
            /\ pc' = "t1_loop"
       ELSE /\ pc' = "t2_upload"
            /\ UNCHANGED <<results, name_counts>>
    /\ i' = 1
    /\ UNCHANGED <<uploaded_files, uploaded_unifikasi, exc, results_uni,
                   name_counts_uni, base_name, status, keys, zip_buffer,
                   zip_buffer_uni, prev, san, referensi>>

\* Lines 31-38 and 113-114: "if uploaded_files:" binds results and
\* name_counts anew; with no file the tab only shows st.info.
Tab1Begin ==
    /\ pc = "t1_upload"
    /\ IF uploaded_files # <<>>
       THEN /\ results' = <<>>
            /\ name_counts' = EmptyCounts
            /\ pc' = "t1_loop"
       ELSE /\ pc' = "t2_upload"
            /\ UNCHANGED <<results, name_counts>>
    /\ i' = 1
    /\ UNCHANGED <<uploaded_files, uploaded_unifikasi, exc, results_uni,
                   name_counts_uni, base_name, status, keys, zip_buffer,
                   zip_buffer_uni, prev, san, referensi>>

\* Lines 53-76: one iteration of "for uploaded in uploaded_files".
Tab1Process ==
    /\ pc = "t1_loop"
    /\ LET uploaded  == uploaded_files[i]
           named     == synth_referensi(uploaded)
           safe_base == safe_base_referensi(named.base_name)
           counts    == Increment(name_counts, safe_base)
           new_name  == new_filename(safe_base, counts[safe_base])
       IN  /\ referensi' = extract_referensi_from_bytes(uploaded.bytes)
           /\ base_name' = named.base_name
           /\ status' = named.status
           /\ name_counts' = counts
           /\ results' = append_record(results, Record(uploaded, new_name, named.status))
    /\ IF i = Len(uploaded_files)
       THEN pc' = "t1_preview" /\ i' = 1
       ELSE pc' = "t1_loop" /\ i' = i + 1
    /\ UNCHANGED <<uploaded_files, uploaded_unifikasi, exc, results_uni,
                   name_counts_uni, keys, zip_buffer, zip_buffer_uni, prev, san>>

\* Lines 85-98: one iteration of the preview loop; after the last one the
\* archive is opened empty.
Tab1Preview ==
    /\ pc = "t1_preview"
    /\ LET key == DlKey(results[i].new_name)
       IN  IF DuplicateKey(keys, key)
           THEN /\ Raise("t1_dupkey")
                /\ UNCHANGED <<i, keys, zip_buffer>>
           ELSE /\ keys' = keys \cup {key}
                /\ exc' = exc
                /\ IF i = Len(results)
                   THEN pc' = "t1_zip" /\ i' = 1 /\ zip_buffer' = <<>>
                   ELSE pc' = "t1_preview" /\ i' = i + 1 /\ zip_buffer' = zip_buffer
    /\ UNCHANGED <<uploaded_files, uploaded_unifikasi, results, name_counts,
                   results_uni, name_counts_uni, base_name, status,
                   zip_buffer_uni, prev, san, referensi>>

\* Lines 99-112: one iteration of the archive loop; after the last one the
\* tab is finished.
Tab1Zip ==
    /\ pc = "t1_zip"
    /\ zip_buffer' = writestr(zip_buffer, results[i].new_name, results[i].bytes)
    /\ IF i = Len(results)
       THEN pc' = "t2_upload" /\ i' = 1
       ELSE pc' = "t1_zip" /\ i' = i + 1
    /\ UNCHANGED <<uploaded_files, uploaded_unifikasi, exc, results, name_counts,
                   results_uni, name_counts_uni, base_name, status, keys,
                   zip_buffer_uni, prev, san, referensi>>

\* Lines 134-136 and 214-215.
Tab2Begin ==
    /\ pc = "t2_upload"
    /\ IF uploaded_unifikasi # <<>>
       THEN /\ results_uni' = <<>>
            /\ name_counts_uni' = EmptyCounts
            /\ pc' = "t2_loop"
       ELSE /\ pc' = "done"
            /\ UNCHANGED <<results_uni, name_counts_uni>>
    /\ i' = 1
    /\ UNCHANGED <<uploaded_files, uploaded_unifikasi, exc, results, name_counts,
                   base_name, status, keys, zip_buffer, zip_buffer_uni, prev, san, referensi>>

\* Lines 154-178: one iteration of "for uploaded in uploaded_unifikasi".
\* An exception of extract_unifikasi_fields (line 156) is not caught.
Tab2Process ==
    /\ pc = "t2_loop"
    /\ LET uploaded  == uploaded_unifikasi[i]
           fields    == extract_unifikasi_fields(uploaded.bytes)
           named     == synth_unifikasi(uploaded, fields)
           base      == named.base_name
           st        == named.status
           safe_base == safe_base_unifikasi(base)
           counts    == Increment(name_counts_uni, safe_base)
           new_name  == new_filename(safe_base, counts[safe_base])
       IN  IF fields.raised
           THEN /\ Raise("t2_extract")
                /\ UNCHANGED <<i, base_name, status, name_counts_uni, results_uni>>
           ELSE /\ base_name' = base
                /\ status' = st
                /\ name_counts_uni' = counts
                /\ results_uni' = append_record(results_uni, Record(uploaded, new_name, st))
                /\ exc' = exc
                /\ IF i = Len(uploaded_unifikasi)
                   THEN pc' = "t2_preview" /\ i' = 1
                   ELSE pc' = "t2_loop" /\ i' = i + 1
    /\ UNCHANGED <<uploaded_files, uploaded_unifikasi, results, name_counts,
                   keys, zip_buffer, zip_buffer_uni, prev, san, referensi>>

\* Lines 187-200.
Tab2Preview ==
    /\ pc = "t2_preview"
    /\ LET key == UniDlKey(results_uni[i].new_name)
       IN  IF DuplicateKey(keys, key)
           THEN /\ Raise("t2_dupkey")
                /\ UNCHANGED <<i, keys, zip_buffer_uni>>
           ELSE /\ keys' = keys \cup {key}
                /\ exc' = exc
                /\ IF i = Len(results_uni)
                   THEN pc' = "t2_zip" /\ i' = 1 /\ zip_buffer_uni' = <<>>
                   ELSE pc' = "t2_preview" /\ i' = i + 1
                        /\ zip_buffer_uni' = zip_buffer_uni
    /\ UNCHANGED <<uploaded_files, uploaded_unifikasi, results, name_counts,
                   results_uni, name_counts_uni, base_name, status,
                   zip_buffer, prev, san, referensi>>

\* Lines 201-213.
Tab2Zip ==
    /\ pc = "t2_zip"
    /\ zip_buffer_uni' =
           writestr(zip_buffer_uni, results_uni[i].new_name, results_uni[i].bytes)
    /\ IF i = Len(results_uni)
       THEN pc' = "done" /\ i' = 1
       ELSE pc' = "t2_zip" /\ i' = i + 1
    /\ UNCHANGED <<uploaded_files, uploaded_unifikasi, exc, results, name_counts,
                   results_uni, name_counts_uni, base_name, status, keys,
                   zip_buffer, prev, san, referensi>>

\* Streamlit runs the script again from line 1 with the same uploads (a
\* click on a download button).  The widget keys of the run are forgotten;
\* every name of the script is bound again only where the new run assigns
\* it.  prev remembers the names the finished run produced.
Rerun ==
    /\ pc \in {"done", "exception"}
    /\ pc' = "t1_upload"
    /\ exc' = "none"
    /\ i' = 1
    /\ keys' = {}
    /\ prev' = [valid |-> TRUE, names |-> Names(results),
                names_uni |-> Names(results_uni)]
    /\ UNCHANGED <<uploaded_files, uploaded_unifikasi, results, name_counts,
                   results_uni, name_counts_uni, base_name, status, zip_buffer,
                   zip_buffer_uni, san, referensi>>

Next ==
    \/ Tab1Begin
    \/ Tab1Process
    \/ Tab1Preview
    \/ Tab1Zip
    \/ Tab2Begin
    \/ Tab2Process
    \/ Tab2Preview
    \/ Tab2Zip
    \/ Rerun

Spec == Init /\ [][Next]_vars

\* ------------------------------------------------------------------------
\* The sanitizers on their own
\* ------------------------------------------------------------------------

\* Characters the sanitizers are tried on: a letter, a digit, "_", two kinds
\* of whitespace, a character outside both classes, "/" and ".".
SanAlphabet == {"a", "7", "_", " ", "\n", "#", "/", "."}

SanInputs == UNION { [1..k -> SanAlphabet] : k \in 0..MaxLen }

safe_base_of(profile, name) ==
    IF profile = "referensi" THEN safe_base_referensi(name)
    ELSE safe_base_unifikasi(name)

SanInit ==
    /\ uploaded_files = <<>>
    /\ uploaded_unifikasi = <<>>
    /\ pc = "san"
    /\ exc = "none"
    /\ i = 1
    /\ referensi = None
    /\ referensi = None
    /\ results = <<>>
    /\ name_counts = EmptyCounts
    /\ results_uni = <<>>
    /\ name_counts_uni = EmptyCounts
    /\ base_name = <<>>
    /\ status = ""
    /\ keys = {}
    /\ zip_buffer = <<>>
    /\ zip_buffer_uni = <<>>
    /\ prev = [valid |-> FALSE, names |-> <<>>, names_uni |-> <<>>]
    /\ \E profile \in {"referensi", "unifikasi"}, input \in SanInputs :
          san = [step |-> "input", profile |-> profile, input |-> input,
                 once |-> <<>>, twice |-> <<>>]

\* safe_base = sanitize(base_name)
SanitizeOnce ==
    /\ san.step = "input"
    /\ san' = [san EXCEPT !.step = "once",
                          !.once = safe_base_of(san.profile, san.input)]
    /\ UNCHANGED <<uploaded_files, uploaded_unifikasi, pc, exc, i, results,
                   name_counts, results_uni, name_counts_uni, base_name, status,
                   keys, zip_buffer, zip_buffer_uni, prev, referensi>>

\* The sanitizer applied to its own output.
SanitizeTwice ==
    /\ san.step = "once"
    /\ san' = [san EXCEPT !.step = "twice",
                          !.twice = safe_base_of(san.profile, san.once)]
    /\ UNCHANGED <<uploaded_files, uploaded_unifikasi, pc, exc, i, results,
                   name_counts, results_uni, name_counts_uni, base_name, status,
                   keys, zip_buffer, zip_buffer_uni, prev, referensi>>

SanNext == SanitizeOnce \/ SanitizeTwice

SpecSan == SanInit /\ [][SanNext]_vars

\* ------------------------------------------------------------------------
\* Where a run is
\* ------------------------------------------------------------------------

AfterTab1 == {"t2_upload", "t2_loop", "t2_preview", "t2_zip", "done"}

\* The Referensi loop of this run has handled every file.
Tab1LoopDone ==
    /\ uploaded_files # <<>>
    /\ pc \in {"t1_preview", "t1_zip"} \cup AfterTab1 \cup {"exception"}

\* The Referensi archive of this run is complete.
Tab1ZipDone ==
    /\ uploaded_files # <<>>
    /\ \/ pc \in AfterTab1
       \/ pc = "exception" /\ exc \in {"t2_extract", "t2_dupkey"}

\* The Unifikasi loop of this run has handled every file.
Tab2LoopDone ==
    /\ uploaded_unifikasi # <<>>
    /\ \/ pc \in {"t2_preview", "t2_zip", "done"}
       \/ pc = "exception" /\ exc = "t2_dupkey"

\* The Unifikasi archive of this run is complete.
Tab2ZipDone == uploaded_unifikasi # <<>> /\ pc = "done"

Distinct(names) ==
    \A a, b \in 1..Len(names) : a # b => names[a] # names[b]

\* The sanitized base name of a file, per tab.
SafeBaseReferensi(uploaded) ==
    safe_base_referensi(synth_referensi(uploaded).base_name)

SafeBaseUnifikasi(uploaded) ==
    safe_base_unifikasi(
        synth_unifikasi(uploaded, extract_unifikasi_fields(uploaded.bytes)).base_name)

\* ------------------------------------------------------------------------
\* Claims
\* ------------------------------------------------------------------------

\* C1: once the processing loop of a tab has handled every file of the
\* batch, the new_name values of the records are pairwise distinct.
C1_Uniqueness ==
    /\ Tab1LoopDone => Distinct(Names(results))
    /\ Tab2LoopDone => Distinct(Names(results_uni))

\* C2 (suffix law): the k-th record's new_name is S.pdf when its file is the
\* first of the batch with sanitized base name S, and S_{N-1}.pdf when it is
\* the N-th; and the counter of S is the number of files with base name S
\* handled so far, whatever other names were handled.
OccReferensi(k) ==
    Cardinality({j \in 1..k :
        SafeBaseReferensi(uploaded_files[j]) = SafeBaseReferensi(uploaded_files[k])})

OccUnifikasi(k) ==
    Cardinality({j \in 1..k :
        SafeBaseUnifikasi(uploaded_unifikasi[j]) = SafeBaseUnifikasi(uploaded_unifikasi[k])})

SuffixLaw(S, N) ==
    IF N = 1 THEN S \o PDF_EXT ELSE S \o <<"_">> \o str(N - 1) \o PDF_EXT

C2_SuffixLaw ==
    /\ \A k \in 1..Len(results) :
          results[k].new_name =
              SuffixLaw(SafeBaseReferensi(uploaded_files[k]), OccReferensi(k))
    /\ \A S \in DOMAIN name_counts :
          name_counts[S] =
              Cardinality({j \in 1..Len(results) : SafeBaseReferensi(uploaded_files[j]) = S})
    /\ \A k \in 1..Len(results) : SafeBaseReferensi(uploaded_files[k]) \in DOMAIN name_counts
    /\ \A k \in 1..Len(results_uni) :
          results_uni[k].new_name =
              SuffixLaw(SafeBaseUnifikasi(uploaded_unifikasi[k]), OccUnifikasi(k))
    /\ \A S \in DOMAIN name_counts_uni :
          name_counts_uni[S] =
              Cardinality({j \in 1..Len(results_uni) :
                  SafeBaseUnifikasi(uploaded_unifikasi[j]) = S})
    /\ \A k \in 1..Len(results_uni) :
          SafeBaseUnifikasi(uploaded_unifikasi[k]) \in DOMAIN name_counts_uni

\* A finished run in which the Referensi tab gave the suffix _1 to the second
\* occurrence of a name, after a file of another name came in between.
C2_Witness ==
    /\ pc = "done"
    /\ \E a, b, c \in 1..Len(results) :
          /\ a < b /\ b < c
          /\ SafeBaseReferensi(uploaded_files[a]) = SafeBaseReferensi(uploaded_files[c])
          /\ SafeBaseReferensi(uploaded_files[a]) # SafeBaseReferensi(uploaded_files[b])
          /\ results[c].new_name =
                 SafeBaseReferensi(uploaded_files[a]) \o <<"_", "1">> \o PDF_EXT

\* Extraction fails on a document: pdfplumber cannot open it, or one of its
\* pages raises.
OpenOrPageFails(b) ==
    ~PDF(b).opens \/ \E k \in 1..Len(PDF(b).pages) : PDF(b).pages[k].raises

\* The index of the first page REFERENSI_RE matches, 0 when none does.
FirstMatch(pages) ==
    IF \E k \in 1..Len(pages) : pages[k].referensi.some
    THEN CHOOSE k \in 1..Len(pages) :
            /\ pages[k].referensi.some
            /\ \A m \in 1..(k - 1) : ~pages[m].referensi.some
    ELSE 0

\* The Referensi scan meets the failure before it meets a match.
FailsReferensi(b) ==
    \/ ~PDF(b).opens
    \/ \E k \in 1..Len(PDF(b).pages) :
          /\ PDF(b).pages[k].raises
          /\ FirstMatch(PDF(b).pages) = 0 \/ k < FirstMatch(PDF(b).pages)

HasPrefix(s, prefix) ==
    Len(s) >= Len(prefix) /\ SubSeq(s, 1, Len(prefix)) = prefix

\* C3: in both tabs a failure of the text extraction on a document is not
\* propagated; the document gets the fallback name and a status other than
\* OK, the rest of the batch is processed, and the batch ends with one
\* record per uploaded file.
C3_FailureContained ==
    /\ exc # "t2_extract"
    /\ Tab1LoopDone =>
          /\ Len(results) = Len(uploaded_files)
          /\ \A k \in 1..Len(results) :
                FailsReferensi(uploaded_files[k].bytes) =>
                    /\ HasPrefix(results[k].new_name, NO_REFERENSI)
                    /\ results[k].status = "No referensi found"
    /\ (pc \in {"done", "exception"} /\ exc # "t1_dupkey") =>
          /\ Len(results_uni) = Len(uploaded_unifikasi)
          /\ \A k \in 1..Len(results_uni) :
                OpenOrPageFails(uploaded_unifikasi[k].bytes) =>
                    /\ HasPrefix(results_uni[k].new_name, NO_DATA)
                    /\ results_uni[k].status = "Incomplete fields"

\* The part of C3 that is about the Referensi tab alone.
C3_ReferensiContained ==
    /\ exc # "t1_extract"
    /\ Tab1LoopDone =>
          /\ Len(results) = Len(uploaded_files)
          /\ \A k \in 1..Len(results) :
                FailsReferensi(uploaded_files[k].bytes) =>
                    /\ HasPrefix(results[k].new_name, NO_REFERENSI)
                    /\ results[k].status = "No referensi found"

\* C4 (archive round trip): once an archive is built, every record of the
\* batch is in it exactly once, as the one entry named by its new_name, with
\* the bytes that were uploaded; and the archive has no other entry.
RoundTrip(rs, zf, ups) ==
    /\ Len(zf) = Len(rs)
    /\ \A r \in 1..Len(rs) :
          LET named == {e \in 1..Len(zf) : zf[e].name = rs[r].new_name}
          IN  /\ Cardinality(named) = 1
              /\ \A e \in named : zf[e].data = ups[r].bytes
    /\ \A e \in 1..Len(zf) : \E r \in 1..Len(rs) : zf[e].name = rs[r].new_name

C4_ArchiveRoundTrip ==
    /\ Tab1ZipDone => RoundTrip(results, zip_buffer, uploaded_files)
    /\ Tab2ZipDone => RoundTrip(results_uni, zip_buffer_uni, uploaded_unifikasi)

\* Both archives built in one run, the Referensi one with two files of
\* different bytes, one of them under a suffixed name.
C4_Witness ==
    /\ Tab1ZipDone
    /\ Tab2ZipDone
    /\ Len(zip_buffer) = 2
    /\ zip_buffer[1].data # zip_buffer[2].data
    /\ \E S \in DOMAIN name_counts : name_counts[S] = 2

\* C5 (determinism): a run starts each collision counter empty, and a run of
\* the same batches produces the same new_names as the run before it.
C5_Determinism ==
    /\ (pc = "t1_loop" /\ i = 1) => name_counts = EmptyCounts
    /\ (pc = "t2_loop" /\ i = 1) => name_counts_uni = EmptyCounts
    /\ (prev.valid /\ pc \in {"done", "exception"}) =>
          /\ Names(results) = prev.names
          /\ Names(results_uni) = prev.names_uni

\* A second run has finished, after a first one that gave a suffix in the
\* Referensi tab and processed a file in the Unifikasi tab.
C5_Witness ==
    /\ prev.valid
    /\ pc = "done"
    /\ \E S \in DOMAIN name_counts : name_counts[S] = 2
    /\ Len(results_uni) = 1

\* C6 (sanitizer idempotence): in each profile the sanitizer applied to its
\* own output returns it unchanged; its output has only characters of the
\* profile's class and no whitespace at either end.
AllowedOf(profile) ==
    IF profile = "referensi" THEN AllowedReferensi ELSE AllowedUnifikasi

C6_SanitizerIdempotent ==
    /\ san.step \in {"once", "twice"} =>
          /\ \A k \in 1..Len(san.once) : san.once[k] \in AllowedOf(san.profile)
          /\ san.once # <<>> =>
                san.once[1] \notin Whitespace /\ san.once[Len(san.once)] \notin Whitespace
    /\ san.step = "twice" => san.twice = san.once

\* The sanitizer ran twice on a string it had to trim and to rewrite.
C6_Witness ==
    /\ san.step = "twice"
    /\ Len(san.input) = 3
    /\ san.input[1] \in Whitespace
    /\ san.input[3] = "#"
    /\ Len(san.once) = 2

\* The name without its last "." and what follows it.
StripExtension(name) ==
    LET dots == {k \in 1..Len(name) : name[k] = "."}
    IN  IF dots = {} THEN name
        ELSE SubSeq(name, 1, (CHOOSE k \in dots : \A m \in dots : m <= k) - 1)

\* No referensi is found in a document: no page matches, or extraction fails.
NotFoundReferensi(b) ==
    FailsReferensi(b) \/ FirstMatch(PDF(b).pages) = 0

LastUniProcessed ==
    /\ Len(results_uni) >= 1
    /\ \/ pc \in {"t2_loop", "t2_preview", "t2_zip", "done"}
       \/ pc = "exception" /\ exc \in {"t2_extract", "t2_dupkey"}

\* The three searches of lines 144-146 all matched.
AllExtracted(b) == PDF(b).masa.some /\ PDF(b).nama.some /\ PDF(b).nomor.some

\* "{masa} / {nama} / {nomor}" with the hyphen of masa removed and nama trimmed.
FullName(b) ==
    remove_hyphen(PDF(b).masa.val) \o <<" ", "/", " ">> \o strip(PDF(b).nama.val)
    \o <<" ", "/", " ">> \o PDF(b).nomor.val

NameSynthesis(Complete(_)) ==
    /\ \A k \in 1..Len(results_uni) :
          results_uni[k].status =
              IF Complete(uploaded_unifikasi[k].bytes) THEN "OK" ELSE "Incomplete fields"
    /\ LastUniProcessed =>
          LET d == uploaded_unifikasi[Len(results_uni)]
          IN  IF Complete(d.bytes)
              THEN base_name = FullName(d.bytes) /\ status = "OK"
              ELSE /\ base_name = NO_DATA \o StripExtension(d.name)
                   /\ status = "Incomplete fields"

\* C8 as stated: a Unifikasi file gets "{masa} / {nama} / {nomor}" and OK
\* if and only if all three fields were extracted, and NO-DATA-<stem> with
\* "Incomplete fields" otherwise.
C8_NameSynthesis == NameSynthesis(AllExtracted)

\* All three fields were extracted and nama is not empty once trimmed.
AllExtractedNonEmpty(b) == AllExtracted(b) /\ strip(PDF(b).nama.val) # <<>>

\* C8 as amended: ... if and only if all three fields were extracted and the
\* nama that was extracted is not empty after trimming.
C8_NameSynthesisNonEmpty == NameSynthesis(AllExtractedNonEmpty)

\* A complete file was named from its three fields.
C8_Witness ==
    /\ LastUniProcessed
    /\ status = "OK"
    /\ base_name = FullName(uploaded_unifikasi[Len(results_uni)].bytes)
    /\ Len(results_uni) = 2
    /\ results_uni[1].status = "Incomplete fields"

\* The Referensi loop of this run has handled a file, and referensi,
\* base_name and status are still those of the last file it handled.
LastRefProcessed ==
    /\ Len(results) >= 1
    /\ \/ pc \in {"t1_loop", "t1_preview", "t1_zip", "t2_upload"}
       \/ pc = "exception" /\ exc = "t1_dupkey"

\* C9 as stated, for a document whose extraction does not fail: the result
\* is the trimmed match of the first page that matches, whatever later pages
\* hold; it is None exactly when no page matches; and a document with a
\* match gets that value as base_name, with status OK.
C9_FirstMatch ==
    LastRefProcessed =>
        LET d     == uploaded_files[Len(results)]
            pages == PDF(d.bytes).pages
            m     == FirstMatch(pages)
        IN  ~OpenOrPageFails(d.bytes) =>
                /\ (referensi = None) <=> (m = 0)
                /\ m # 0 =>
                      /\ referensi = Some(strip(pages[m].referensi.val))
                      /\ base_name = referensi.val
                      /\ status = "OK"

\* The pages the scan can read: those before the first page that raises,
\* none when the document does not open.
ReadablePages(b) ==
    IF ~PDF(b).opens THEN <<>>
    ELSE LET bad == {k \in 1..Len(PDF(b).pages) : PDF(b).pages[k].raises}
         IN  IF bad = {} THEN PDF(b).pages
             ELSE SubSeq(PDF(b).pages, 1, (CHOOSE k \in bad : \A m \in bad : k <= m) - 1)

\* C9 as amended: the result is the trimmed match of the first readable page
\* that matches, whatever later pages hold, and None exactly when no
\* readable page matches; the document gets that value as base_name with
\* status OK when the value is not empty, and the fallback name with status
\* "No referensi found" when it is empty.
C9_FirstMatchNonEmpty ==
    LastRefProcessed =>
        LET d     == uploaded_files[Len(results)]
            pages == ReadablePages(d.bytes)
            m     == FirstMatch(pages)
        IN  /\ (referensi = None) <=> (m = 0)
            /\ m # 0 =>
                  /\ referensi = Some(strip(pages[m].referensi.val))
                  /\ IF referensi.val # <<>>
                     THEN base_name = referensi.val /\ status = "OK"
                     ELSE /\ base_name = NO_REFERENSI \o StripExtension(d.name)
                          /\ status = "No referensi found"

\* A file was named from its first match although a later page matches
\* something else.
C9_Witness ==
    /\ LastRefProcessed
    /\ status = "OK"
    /\ LET pages == PDF(uploaded_files[Len(results)].bytes).pages
       IN  \E m \in 1..Len(pages) :
              /\ m > FirstMatch(pages)
              /\ pages[m].referensi.some
              /\ strip(pages[m].referensi.val) # base_name

\* C10 (order and frame): the loops append one record per file handled, in
\* upload order, with the file's name and bytes; a record once appended is
\* never changed; and the archive entries follow the order of the records.
C10_State ==
    /\ pc = "t1_loop" => Len(results) = i - 1
    /\ Tab1LoopDone => Len(results) = Len(uploaded_files)
    /\ \A k \in 1..Len(results) :
          /\ results[k].original_name = uploaded_files[k].name
          /\ results[k].bytes = uploaded_files[k].bytes
    /\ pc = "t1_zip" => Len(zip_buffer) = i - 1
    /\ (pc = "t1_zip" \/ Tab1ZipDone) =>
          \A e \in 1..Len(zip_buffer) :
              zip_buffer[e] = [name |-> results[e].new_name, data |-> results[e].bytes]
    /\ pc = "t2_loop" => Len(results_uni) = i - 1
    /\ Tab2LoopDone => Len(results_uni) = Len(uploaded_unifikasi)
    /\ \A k \in 1..Len(results_uni) :
          /\ results_uni[k].original_name = uploaded_unifikasi[k].name
          /\ results_uni[k].bytes = uploaded_unifikasi[k].bytes
    /\ pc = "t2_zip" => Len(zip_buffer_uni) = i - 1
    /\ (pc = "t2_zip" \/ Tab2ZipDone) =>
          \A e \in 1..Len(zip_buffer_uni) :
              zip_buffer_uni[e] =
                  [name |-> results_uni[e].new_name, data |-> results_uni[e].bytes]

Extends(old, new) ==
    /\ Len(new) = Len(old) + 1
    /\ \A k \in 1..Len(old) : new[k] = old[k]

C10_Step ==
    /\ pc = "t1_loop" => Extends(results, results')
    /\ pc \notin {"t1_loop", "t1_upload"} => results' = results
    /\ pc = "t2_loop" => Extends(results_uni, results_uni') \/ results_uni' = results_uni
    /\ pc \notin {"t2_loop", "t2_upload"} => results_uni' = results_uni

C10_OrderAndFrame == [](C10_State) /\ [][C10_Step]_vars

\* The Unifikasi archive is being written after its first entry, in a run
\* whose Referensi tab handled a file too.
C10_Witness ==
    /\ pc = "t2_zip"
    /\ Len(zip_buffer_uni) = 1
    /\ Len(results) = 1
    /\ Len(results_uni) = 2
    /\ results_uni[1].bytes # results_uni[2].bytes

====
